---- MODULE Spec2Model ----
(***************************************************************************)
(* Model of gulpfile.babel.js: the gulp (3.x) build of the TiddlyWiki      *)
(* plugin danielo515/pouchdb.  One gulp process loads the module (reads    *)
(* plugin.info, runs the sanity check, registers the tasks), starts the    *)
(* tasks named on the command line in order, and lets their asynchronous   *)
(* parts (streams, promises) finish afterwards.                            *)
(*                                                                         *)
(* Strings of the program are sequences of one-character strings, so that  *)
(* parsing (SemVer, parseInt) and formatting are computed, not assumed.    *)
(***************************************************************************)
EXTENDS Integers, Sequences, FiniteSets, TLC

(***************************************************************************)
(* Bounds of the model.                                                    *)
(***************************************************************************)
\* gulp processes launched one after the other to bump the version
MaxRuns == 3
\* gulp processes launched one after the other to build the plugin
MaxBuilds == 2
\* tasks named on one command line of a build
MaxTasks == 2

(***************************************************************************)
(* Characters and strings.                                                 *)
(***************************************************************************)
Digits == {"0", "1", "2", "3", "4", "5", "6", "7", "8", "9"}

Lower == {"a", "b", "c", "d", "e", "f", "g", "h", "i", "j", "k", "l", "m",
          "n", "o", "p", "q", "r", "s", "t", "u", "v", "w", "x", "y", "z"}

Upper == {"A", "B", "C", "D", "E", "F", "G", "H", "I", "J", "K", "L", "M",
          "N", "O", "P", "Q", "R", "S", "T", "U", "V", "W", "X", "Y", "Z"}

\* [0-9A-Za-z-], the characters of a semver identifier
IdChars == Digits \cup Lower \cup Upper \cup {"-"}

DigitVal(c) ==
    CASE c = "0" -> 0 [] c = "1" -> 1 [] c = "2" -> 2 [] c = "3" -> 3
      [] c = "4" -> 4 [] c = "5" -> 5 [] c = "6" -> 6 [] c = "7" -> 7
      [] c = "8" -> 8 [] c = "9" -> 9

HexDigits == Digits \cup {"a", "b", "c", "d", "e", "f", "A", "B", "C", "D", "E", "F"}

HexVal(c) ==
    CASE c \in Digits -> DigitVal(c)
      [] c \in {"a", "A"} -> 10 [] c \in {"b", "B"} -> 11
      [] c \in {"c", "C"} -> 12 [] c \in {"d", "D"} -> 13
      [] c \in {"e", "E"} -> 14 [] c \in {"f", "F"} -> 15

DigitChar(d) ==
    CASE d = 0 -> "0" [] d = 1 -> "1" [] d = 2 -> "2" [] d = 3 -> "3"
      [] d = 4 -> "4" [] d = 5 -> "5" [] d = 6 -> "6" [] d = 7 -> "7"
      [] d = 8 -> "8" [] d = 9 -> "9"

\* index of the first character of s that lies in cs, 0 when there is none
RECURSIVE FirstIn(_, _, _)
FirstIn(s, cs, i) ==
    IF i > Len(s) THEN 0
    ELSE IF s[i] \in cs THEN i
    ELSE FirstIn(s, cs, i + 1)

\* String.prototype.split on a one-character separator
RECURSIVE Split(_, _)
Split(s, sep) ==
    LET k == FirstIn(s, {sep}, 1) IN
    IF k = 0 THEN <<s>>
    ELSE <<SubSeq(s, 1, k - 1)>> \o Split(SubSeq(s, k + 1, Len(s)), sep)

\* the longest prefix of s made of characters of cs
RECURSIVE PrefixIn(_, _)
PrefixIn(s, cs) ==
    IF s = <<>> \/ Head(s) \notin cs THEN <<>>
    ELSE <<Head(s)>> \o PrefixIn(Tail(s), cs)

AllIn(s, cs) == \A i \in 1..Len(s) : s[i] \in cs

\* value of a digit string in the given radix
RECURSIVE RadixValue(_, _, _)
RadixValue(s, radix, acc) ==
    IF s = <<>> THEN acc
    ELSE RadixValue(Tail(s), radix, acc * radix + HexVal(Head(s)))

(***************************************************************************)
(* JavaScript numbers as far as the build counter needs them: a number is  *)
(* <<n>> for the integer n and <<>> for NaN.                               *)
(***************************************************************************)
NaN == <<>>

Num(n) == <<n>>

\* parseInt(x) with no radix: optional sign, "0x" selects radix 16, then the
\* longest digit prefix; NaN when that prefix is empty
ParseInt(s) ==
    LET neg  == s # <<>> /\ Head(s) = "-"
        body == IF neg THEN Tail(s) ELSE s
        hex  == Len(body) >= 2 /\ body[1] = "0" /\ body[2] \in {"x", "X"}
        digs == IF hex THEN PrefixIn(SubSeq(body, 3, Len(body)), HexDigits)
                ELSE PrefixIn(body, Digits)
        val  == RadixValue(digs, IF hex THEN 16 ELSE 10, 0)
    IN  IF digs = <<>> THEN NaN
        ELSE IF neg THEN Num(0 - val) ELSE Num(val)

\* x + 1 on a number
PlusOne(x) == IF x = NaN THEN NaN ELSE Num(x[1] + 1)

RECURSIVE NatToStr(_)
NatToStr(n) ==
    IF n < 10 THEN <<DigitChar(n)>>
    ELSE NatToStr(n \div 10) \o <<DigitChar(n % 10)>>

\* string conversion of a number ('' + x, `${x}`)
NumToStr(x) ==
    IF x = NaN THEN <<"N", "a", "N">>
    ELSE IF x[1] < 0 THEN <<"-">> \o NatToStr(0 - x[1])
    ELSE NatToStr(x[1])

(***************************************************************************)
(* new SemVer(version): the strict grammar of the semver package,          *)
(*   v?MAJOR.MINOR.PATCH(-PRERELEASE)?(+BUILD)?                            *)
(* MAJOR, MINOR, PATCH are 0|[1-9][0-9]*; PRERELEASE and BUILD are         *)
(* dot-separated non-empty identifiers over [0-9A-Za-z-], and an           *)
(* all-digit prerelease identifier has no leading zero.                    *)
(***************************************************************************)
IsNumericId(s) ==
    /\ s # <<>>
    /\ AllIn(s, Digits)
    /\ (Len(s) > 1 => s[1] # "0")

IsPrereleaseId(s) ==
    /\ s # <<>>
    /\ AllIn(s, IdChars)
    /\ (AllIn(s, Digits) => IsNumericId(s))

IsBuildId(s) == s # <<>> /\ AllIn(s, IdChars)

SemVer(version) ==
    LET s     == IF version # <<>> /\ Head(version) = "v" THEN Tail(version) ELSE version
        k     == FirstIn(s, {"-", "+"}, 1)
        main  == IF k = 0 THEN s ELSE SubSeq(s, 1, k - 1)
        rest  == IF k = 0 THEN <<>> ELSE SubSeq(s, k, Len(s))
        hasPre == rest # <<>> /\ Head(rest) = "-"
        p     == FirstIn(rest, {"+"}, 1)
        pre   == IF ~hasPre THEN <<>>
                 ELSE IF p = 0 THEN Tail(rest) ELSE SubSeq(rest, 2, p - 1)
        hasBuild == p # 0
        bld   == IF hasBuild THEN SubSeq(rest, p + 1, Len(rest)) ELSE <<>>
        nums  == Split(main, ".")
        preIds == IF hasPre THEN Split(pre, ".") ELSE <<>>
        bldIds == IF hasBuild THEN Split(bld, ".") ELSE <<>>
        ok    == /\ Len(nums) = 3
                 /\ \A i \in 1..Len(nums) : IsNumericId(nums[i])
                 /\ \A i \in 1..Len(preIds) : IsPrereleaseId(preIds[i])
                 /\ \A i \in 1..Len(bldIds) : IsBuildId(bldIds[i])
    IN  IF ok
        THEN [valid |-> TRUE,
              major |-> RadixValue(nums[1], 10, 0),
              minor |-> RadixValue(nums[2], 10, 0),
              patch |-> RadixValue(nums[3], 10, 0),
              prerelease |-> preIds,
              build |-> bldIds]
        ELSE [valid |-> FALSE]

(***************************************************************************)
(* Script config and preprocessing.                                        *)
(***************************************************************************)
authorName == "danielo515"

pluginName == "pouchdb"

pluginNamespace == authorName \o "/" \o pluginName

pluginTiddler == "$:/plugins/" \o pluginNamespace

\* the names of the output paths (the keys of outPath)
outPath == {"bundle", "dist", "docs", "maps"}

\* the tasks the module registers, and the name of the default task
TaskNames == {"perform cleanup", "bump version", "copy vanilla files",
              "compile and move scripts", "Javascript validation",
              "create docs", "bundle the plugin", "default"}

(***************************************************************************)
(* Values.                                                                 *)
(***************************************************************************)
\* argv.mode when --mode is not given
Undefined == <<"undefined">>

\* a variable holding no object
Null == [null |-> TRUE]

\* a path that does not exist
Absent == [absent |-> TRUE]

\* a file opened for writing (truncated) whose content was never written out
Truncated == [truncated |-> TRUE]

\* the outcomes of fs.writeFileSync: written; thrown before the file was
\* opened; thrown after the file was opened with O_TRUNC
WriteOutcomes == {"ok", "fail_before", "fail_truncated"}

VARIABLES
    isIncrBuild,   \* the script config flag
    manifest,      \* src/plugins/<namespace>/plugin.info on disk
    packageJson,   \* the version field of ./package.json on disk
    dist,          \* ./dist/: the copied plugin.info and whether scripts are there
    bundle,        \* ./bundle/: whether it exists and the artifact files in it
    docs,          \* whether ./docs/ holds generated docs
    maps,          \* whether ./maps/ exists
    pc,            \* "idle" (no process), "run", "failed", "aborted"
    err,           \* the error the process raised, "none" if none
    pluginInfo,    \* the parsed plugin.info object of the process
    argvMode,      \* argv.mode
    argvTasks,     \* the tasks named on the command line
    registered,    \* the tasks gulp.task has registered
    queue,         \* tasks of the command line not yet started
    started,       \* tasks whose function has been called
    done,          \* tasks that have signalled completion without an error
    pending,       \* asynchronous operations in flight
    finished,      \* asynchronous operations that completed successfully
    runs           \* gulp processes launched so far; also the clock

disk == <<manifest, packageJson, dist, bundle, docs, maps>>

outputs == <<dist, bundle, docs, maps>>

process == <<pc, err, pluginInfo, argvMode, argvTasks, registered, queue,
             started, done, pending, finished, runs>>

vars == <<isIncrBuild, manifest, packageJson, dist, bundle, docs, maps, pc, err,
          pluginInfo, argvMode, argvTasks, registered, queue, started, done,
          pending, finished, runs>>

\* an asynchronous operation without arguments
Op(name) == [op |-> name]

(***************************************************************************)
(* The command line and the start of the process.                          *)
(***************************************************************************)
\* the sanity check with its comparison inverted (=== for !==)
SettingsMismatchInverted(info) == pluginTiddler = info.title

\* the sanity check: does plugin.info not belong to the configured plugin?
SettingsMismatch(info) == pluginTiddler # info.title

\* Module load: read and parse plugin.info, run the sanity check, register
\* the tasks; gulp then takes the tasks of the command line in order.
Launch(mode, tasks) ==
    /\ pc = "idle"
    /\ runs' = runs + 1
    /\ argvMode' = mode
    /\ argvTasks' = tasks
    /\ started' = {}
    /\ done' = {}
    /\ pending' = {}
    /\ finished' = {}
    /\ IF manifest = Truncated
       THEN \* JSON.parse throws on the empty file
            /\ pluginInfo' = Null
            /\ pc' = "aborted"
            /\ err' = "SyntaxError"
            /\ registered' = {}
            /\ queue' = <<>>
       ELSE /\ pluginInfo' = manifest
            /\ IF SettingsMismatch(manifest)
               THEN /\ pc' = "aborted"
                    /\ err' = "Gulp settings do not match the plugin.info"
                    /\ registered' = {}
                    /\ queue' = <<>>
               ELSE /\ pc' = "run"
                    /\ err' = "none"
                    /\ registered' = TaskNames
                    /\ queue' = tasks
    /\ UNCHANGED <<isIncrBuild, disk>>

\* gulp calls the function of the next task of the command line
Starts(task) ==
    /\ pc = "run"
    /\ queue # <<>>
    /\ Head(queue) = task
    /\ task \in registered
    /\ queue' = Tail(queue)
    /\ started' = started \cup (IF task = "default" THEN {"default", "bump version"}
                                ELSE {task})

\* a task function throws: gulp reports the error and starts no further task
Throws(error) ==
    /\ pc' = "failed"
    /\ err' = error

\* all task functions of the command line have returned, or gulp has stopped
\* starting tasks: the event loop now serves the operations in flight
Settled ==
    \/ pc = "run" /\ queue = <<>>
    \/ pc = "failed"

\* the process ends when nothing is left to do
Exit ==
    /\ pc \in {"run", "failed", "aborted"}
    /\ pc = "run" => queue = <<>>
    /\ pending = {}
    /\ pc' = "idle"
    /\ err' = "none"
    /\ pluginInfo' = Null
    /\ argvMode' = Undefined
    /\ argvTasks' = <<>>
    /\ registered' = {}
    /\ queue' = <<>>
    /\ started' = {}
    /\ done' = {}
    /\ finished' = {}
    /\ UNCHANGED <<isIncrBuild, disk, pending, runs>>

(***************************************************************************)
(* 'perform cleanup'                                                       *)
(***************************************************************************)
PerformCleanup ==
    /\ Starts("perform cleanup")
    /\ pending' = pending \cup {Op("del")}
    /\ UNCHANGED <<isIncrBuild, disk, pc, err, pluginInfo, argvMode, argvTasks,
                   registered, done, finished, runs>>

\* the promise of del resolves: every output path is gone
CleanupDone ==
    /\ Settled
    /\ Op("del") \in pending
    /\ pending' = pending \ {Op("del")}
    /\ finished' = finished \cup {Op("del")}
    /\ done' = done \cup {"perform cleanup"}
    /\ dist' = [info |-> Absent, scripts |-> FALSE]
    /\ bundle' = [exists |-> FALSE, files |-> {}]
    /\ docs' = FALSE
    /\ maps' = FALSE
    /\ UNCHANGED <<isIncrBuild, manifest, packageJson, pc, err, pluginInfo, argvMode,
                   argvTasks, registered, queue, started, runs>>

(***************************************************************************)
(* 'bump version'                                                          *)
(***************************************************************************)
\* v.build[0] || 0, as parseInt reads it (parseInt(0) reads "0")
BuildHead(v) == IF v.build = <<>> THEN <<"0">> ELSE v.build[1]

\* const build
BuildSuffix(v, incr) ==
    IF incr THEN <<"+">> \o NumToStr(PlusOne(ParseInt(BuildHead(v)))) ELSE <<>>

\* const mode, without the exception for "master"
ModeLabelWithMaster(mode) ==
    IF mode # Undefined /\ mode # <<>> THEN <<"-">> \o mode ELSE <<>>

\* const mode
ModeLabel(mode) ==
    IF mode # Undefined /\ mode # <<>> /\ mode # <<"m", "a", "s", "t", "e", "r">>
    THEN <<"-">> \o mode
    ELSE <<>>

\* const version
BaseVersion(v, mode) ==
    NatToStr(v.major) \o <<".">> \o NatToStr(v.minor) \o <<".">> \o NatToStr(v.patch)
        \o ModeLabel(mode)

\* the version option, had gulp-bump been handed pluginInfo.version
PackageVersionWithBuild(version, build) == version \o build

\* the version option handed to gulp-bump
PackageVersion(version, build) == version

\* the body of the task; tasks is what completes when it calls cb()
BumpBody(outcome, tasks) ==
    LET v == SemVer(pluginInfo.version) IN
    IF ~v.valid
    THEN /\ Throws("TypeError: Invalid Version")
         /\ UNCHANGED <<disk, pluginInfo, done, pending>>
    ELSE LET build   == BuildSuffix(v, isIncrBuild)
             version == BaseVersion(v, argvMode)
             info    == [pluginInfo EXCEPT !.version = version \o build,
                                           !.released = runs]
         IN  /\ pluginInfo' = info
             /\ UNCHANGED <<packageJson, outputs>>
             /\ IF outcome = "ok"
                THEN /\ manifest' = info
                     /\ pending' = pending \cup
                            {[op |-> "write package.json",
                              version |-> PackageVersion(version, build)]}
                     /\ done' = done \cup tasks
                     /\ UNCHANGED <<pc, err>>
                ELSE /\ manifest' = IF outcome = "fail_truncated" THEN Truncated
                                    ELSE manifest
                     /\ Throws("Error: write plugin.info")
                     /\ UNCHANGED <<done, pending>>

BumpVersion ==
    /\ Starts("bump version")
    /\ \E outcome \in WriteOutcomes : BumpBody(outcome, {"bump version"})
    /\ UNCHANGED <<isIncrBuild, argvMode, argvTasks, registered, finished, runs>>

\* gulp-bump has set the version key and gulp.dest writes ./package.json; an
\* error of the stream has no listener and ends the process
PackageJsonWritten ==
    /\ Settled
    /\ \E w \in pending :
        /\ w.op = "write package.json"
        /\ \/ /\ packageJson' = w.version
              /\ pending' = pending \ {w}
              /\ finished' = finished \cup {w}
              /\ UNCHANGED <<pc, err>>
           \/ /\ pending' = {}
              /\ pc' = "failed"
              /\ err' = "Error: write package.json"
              /\ UNCHANGED <<packageJson, finished>>
    /\ UNCHANGED <<isIncrBuild, manifest, outputs, pluginInfo, argvMode, argvTasks,
                   registered, queue, started, done, runs>>

(***************************************************************************)
(* 'default': runSequence('bump version', cb)                              *)
(***************************************************************************)
Default ==
    /\ Starts("default")
    /\ \E outcome \in WriteOutcomes :
          BumpBody(outcome, {"bump version", "default"})
    /\ UNCHANGED <<isIncrBuild, argvMode, argvTasks, registered, finished, runs>>

(***************************************************************************)
(* The file-transform tasks: each returns a stream (or takes a callback)   *)
(* that ends after the task functions of the command line have returned.   *)
(***************************************************************************)
CopyVanillaFiles ==
    /\ Starts("copy vanilla files")
    /\ pending' = pending \cup {Op("copy")}
    /\ UNCHANGED <<isIncrBuild, disk, pc, err, pluginInfo, argvMode, argvTasks,
                   registered, done, finished, runs>>

\* the stream has copied plugin.info (and every other vanilla file) to dist
CopyDone ==
    /\ Settled
    /\ Op("copy") \in pending
    /\ pending' = pending \ {Op("copy")}
    /\ finished' = finished \cup {Op("copy")}
    /\ done' = done \cup {"copy vanilla files"}
    /\ dist' = [dist EXCEPT !.info = manifest]
    /\ UNCHANGED <<isIncrBuild, manifest, packageJson, bundle, docs, maps, pc, err,
                   pluginInfo, argvMode, argvTasks, registered, queue, started, runs>>

CompileAndMoveScripts ==
    /\ Starts("compile and move scripts")
    /\ pending' = pending \cup {Op("compile")}
    /\ UNCHANGED <<isIncrBuild, disk, pc, err, pluginInfo, argvMode, argvTasks,
                   registered, done, finished, runs>>

\* the compiled scripts and their source maps are in dist
CompileDone ==
    /\ Settled
    /\ Op("compile") \in pending
    /\ pending' = pending \ {Op("compile")}
    /\ finished' = finished \cup {Op("compile")}
    /\ done' = done \cup {"compile and move scripts"}
    /\ dist' = [dist EXCEPT !.scripts = TRUE]
    /\ UNCHANGED <<isIncrBuild, manifest, packageJson, bundle, docs, maps, pc, err,
                   pluginInfo, argvMode, argvTasks, registered, queue, started, runs>>

JavascriptValidation ==
    /\ Starts("Javascript validation")
    /\ pending' = pending \cup {Op("esprima")}
    /\ UNCHANGED <<isIncrBuild, disk, pc, err, pluginInfo, argvMode, argvTasks,
                   registered, done, finished, runs>>

ValidationDone ==
    /\ Settled
    /\ Op("esprima") \in pending
    /\ pending' = pending \ {Op("esprima")}
    /\ finished' = finished \cup {Op("esprima")}
    /\ done' = done \cup {"Javascript validation"}
    /\ UNCHANGED <<isIncrBuild, disk, pc, err, pluginInfo, argvMode, argvTasks,
                   registered, queue, started, runs>>

CreateDocs ==
    /\ Starts("create docs")
    /\ pending' = pending \cup {Op("jsdoc")}
    /\ UNCHANGED <<isIncrBuild, disk, pc, err, pluginInfo, argvMode, argvTasks,
                   registered, done, finished, runs>>

\* jsdoc has written config.opts.destination and calls cb
DocsDone ==
    /\ Settled
    /\ Op("jsdoc") \in pending
    /\ pending' = pending \ {Op("jsdoc")}
    /\ finished' = finished \cup {Op("jsdoc")}
    /\ done' = done \cup {"create docs"}
    /\ docs' = TRUE
    /\ UNCHANGED <<isIncrBuild, manifest, packageJson, dist, bundle, maps, pc, err,
                   pluginInfo, argvMode, argvTasks, registered, queue, started, runs>>

(***************************************************************************)
(* 'bundle the plugin'                                                     *)
(***************************************************************************)
\* const outName
OutName(version) == <<pluginName, "_">> \o version \o <<".json">>

\* $tw.loadPluginFolder: null without a plugin.info, else the folder as found
LoadPluginFolder(folder) == IF folder.info = Absent THEN Null ELSE folder

\* fs.writeFileSync(path.resolve(outPath.bundle, name), content)
WriteArtifact(files, name, content) ==
    {f \in files : f.name # name} \cup {[name |-> name, content |-> content]}

BundleThePlugin ==
    /\ Starts("bundle the plugin")
    /\ IF dist.info = Truncated
       THEN \* the host cannot parse the copied plugin.info
            /\ Throws("SyntaxError")
            /\ UNCHANGED <<bundle, done>>
       ELSE \E outcome \in WriteOutcomes :
            LET plugin  == LoadPluginFolder(dist)
                outName == OutName(pluginInfo.version)
            IN  CASE outcome = "ok" ->
                       /\ bundle' = [exists |-> TRUE,
                                     files |-> WriteArtifact(bundle.files, outName,
                                                             [array |-> <<plugin>>])]
                       /\ done' = done \cup {"bundle the plugin"}
                       /\ UNCHANGED <<pc, err>>
                  [] outcome = "fail_before" ->
                       /\ bundle' = [bundle EXCEPT !.exists = TRUE]
                       /\ Throws("Error: write artifact")
                       /\ UNCHANGED done
                  [] outcome = "fail_truncated" ->
                       /\ bundle' = [exists |-> TRUE,
                                     files |-> WriteArtifact(bundle.files, outName,
                                                             Truncated)]
                       /\ Throws("Error: write artifact")
                       /\ UNCHANGED done
    /\ UNCHANGED <<isIncrBuild, manifest, packageJson, dist, docs, maps, pluginInfo,
                   argvMode, argvTasks, registered, pending, finished, runs>>

(***************************************************************************)
(* Inputs: the plugin.info found on disk and the command lines.            *)
(***************************************************************************)
\* "1.2.5+3", "2.0.0+9", "1.2.5", "1.2.5-develop+3"
NumericVersions ==
    { <<"1", ".", "2", ".", "5", "+", "3">>,
      <<"2", ".", "0", ".", "0", "+", "9">>,
      <<"1", ".", "2", ".", "5">>,
      <<"1", ".", "2", ".", "5", "-", "d", "e", "v", "e", "l", "o", "p", "+", "3">> }

\* "1.2.5+abc", "1.2.5+build.7", "1.2.5+7abc", "0.1.0+0x1f"
OtherVersions ==
    { <<"1", ".", "2", ".", "5", "+", "a", "b", "c">>,
      <<"1", ".", "2", ".", "5", "+", "b", "u", "i", "l", "d", ".", "7">>,
      <<"1", ".", "2", ".", "5", "+", "7", "a", "b", "c">>,
      <<"0", ".", "1", ".", "0", "+", "0", "x", "1", "f">> }

\* --mode: not given, "", "master", "develop", "my_mode", "feature/x"
Modes ==
    { Undefined,
      <<>>,
      <<"m", "a", "s", "t", "e", "r">>,
      <<"d", "e", "v", "e", "l", "o", "p">>,
      <<"m", "y", "_", "m", "o", "d", "e">>,
      <<"f", "e", "a", "t", "u", "r", "e", "/", "x">> }

\* sequences of distinct elements of S of length 1..n
Distinct(l) == \A i, j \in 1..Len(l) : i < j => l[i] # l[j]

RECURSIVE Lists(_, _)
Lists(S, n) ==
    IF n = 0 THEN {}
    ELSE LET shorter == Lists(S, n - 1)
             longer  == {Append(l, t) : l \in shorter, t \in S}
         IN  {<<t>> : t \in S} \cup shorter \cup {l \in longer : Distinct(l)}

\* "default" is run on its own; the other tasks in any order
CommandLines == {<<"default">>} \cup Lists(TaskNames \ {"default"}, MaxTasks)

InitWith(versions, titles) ==
    /\ isIncrBuild \in BOOLEAN
    /\ manifest \in {[title |-> t, version |-> v, released |-> 0] :
                        t \in titles, v \in versions}
    /\ packageJson = <<"1", ".", "0", ".", "0">>
    /\ dist = [info |-> Absent, scripts |-> FALSE]
    /\ bundle = [exists |-> FALSE, files |-> {}]
    /\ docs = FALSE
    /\ maps = FALSE
    /\ pc = "idle"
    /\ err = "none"
    /\ pluginInfo = Null
    /\ argvMode = Undefined
    /\ argvTasks = <<>>
    /\ registered = {}
    /\ queue = <<>>
    /\ started = {}
    /\ done = {}
    /\ pending = {}
    /\ finished = {}
    /\ runs = 0

OtherTitle == "$:/plugins/other/plugin"

(***************************************************************************)
(* Spec: the operator bumps the version, again and again.  Every version   *)
(* and every mode, the command lines `gulp` and `gulp "bump version"`.     *)
(***************************************************************************)
Init == InitWith(NumericVersions \cup OtherVersions, {pluginTiddler, OtherTitle})

Gulp ==
    /\ runs < MaxRuns
    /\ \E mode \in Modes, tasks \in {<<"default">>, <<"bump version">>} :
          Launch(mode, tasks)

Next ==
    \/ Gulp
    \/ BumpVersion
    \/ PackageJsonWritten
    \/ Default
    \/ Exit

Spec == Init /\ [][Next]_vars

(***************************************************************************)
(* SpecPipeline: the operator builds the plugin with any command line of   *)
(* up to MaxTasks tasks.                                                   *)
(***************************************************************************)
PipelineModes == {Undefined, <<"d", "e", "v", "e", "l", "o", "p">>}

InitPipeline == InitWith({<<"1", ".", "2", ".", "5", "+", "3">>}, {pluginTiddler})

Build ==
    /\ runs < MaxBuilds
    /\ \E mode \in PipelineModes, tasks \in CommandLines : Launch(mode, tasks)

NextPipeline ==
    \/ Build
    \/ PerformCleanup
    \/ CleanupDone
    \/ BumpVersion
    \/ PackageJsonWritten
    \/ Default
    \/ CopyVanillaFiles
    \/ CopyDone
    \/ CompileAndMoveScripts
    \/ CompileDone
    \/ JavascriptValidation
    \/ ValidationDone
    \/ CreateDocs
    \/ DocsDone
    \/ BundleThePlugin
    \/ Exit

SpecPipeline == InitPipeline /\ [][NextPipeline]_vars

(***************************************************************************)
(* Vocabulary of the properties: a version string read as text.            *)
(***************************************************************************)
Master == <<"m", "a", "s", "t", "e", "r">>

Develop == <<"d", "e", "v", "e", "l", "o", "p">>

\* the text MAJOR.MINOR.PATCH of a version: what precedes the first - or +
MainText(s) ==
    LET k == FirstIn(s, {"-", "+"}, 1) IN IF k = 0 THEN s ELSE SubSeq(s, 1, k - 1)

HasBuild(s) == FirstIn(s, {"+"}, 1) # 0

\* the build part of a version: what follows the first +
BuildText(s) == SubSeq(s, FirstIn(s, {"+"}, 1) + 1, Len(s))

\* the build part is a number
NumericBuild(s) == HasBuild(s) /\ BuildText(s) # <<>> /\ AllIn(BuildText(s), Digits)

\* the build counter N of a version whose build part is a number or absent
BuildCounter(s) == IF HasBuild(s) THEN RadixValue(BuildText(s), 10, 0) ELSE 0

\* the label of a version: what lies between the first - and the build part
LabelText(s) ==
    LET t == IF HasBuild(s) THEN SubSeq(s, 1, FirstIn(s, {"+"}, 1) - 1) ELSE s
        k == FirstIn(t, {"-"}, 1)
    IN  IF k = 0 THEN <<>> ELSE SubSeq(t, k, Len(t))

\* a mode is present when --mode was given a non-empty value
ModePresent(mode) == mode # Undefined /\ mode # <<>>

\* the label a mode asks for
LabelOf(mode) ==
    IF ModePresent(mode) /\ mode # Master THEN <<"-">> \o mode ELSE <<>>

EndsWith(s, t) == Len(s) >= Len(t) /\ SubSeq(s, Len(s) - Len(t) + 1, Len(s)) = t

\* this step runs the function of 'bump version'
BumpRuns == "bump version" \in started' /\ "bump version" \notin started

\* this step runs the function of 'bundle the plugin'
BundleRuns == "bundle the plugin" \in started' /\ "bundle the plugin" \notin started

\* the write of package.json by this process has finished successfully
PackageJsonDone == \E w \in finished : w.op = "write package.json"

Range(l) == {l[i] : i \in 1..Len(l)}

\* the version the derivation rule gives: main part, label, build suffix
C1_Expected(old, mode, incr) ==
    MainText(old) \o LabelOf(mode)
        \o (IF incr THEN <<"+">> \o NatToStr(BuildCounter(old) + 1) ELSE <<>>)

(***************************************************************************)
(* C1: for a current version MAJOR.MINOR.PATCH[-LABEL][+N] with numeric or *)
(* absent N, every mode and every autoIncrement flag, 'bump version' sets  *)
(* the version to MAJOR.MINOR.PATCH, then "-" + mode exactly when a mode   *)
(* is present and is not "master", then "+" + (N+1) exactly when           *)
(* autoIncrement is true; the version is what plugin.info holds once the   *)
(* task has completed.  With the three examples of the specification.      *)
(***************************************************************************)
C1_BumpSetsDerivedVersion ==
    [][ (/\ BumpRuns
         /\ SemVer(pluginInfo.version).valid
         /\ (HasBuild(pluginInfo.version) => NumericBuild(pluginInfo.version)))
        => LET old == pluginInfo.version
               new == pluginInfo'.version
           IN  /\ new = C1_Expected(old, argvMode, isIncrBuild)
               /\ "bump version" \in done' => manifest'.version = new
               /\ (old = <<"1", ".", "2", ".", "5", "+", "3">> /\ argvMode = Develop
                      /\ isIncrBuild)
                  => new = <<"1", ".", "2", ".", "5", "-", "d", "e", "v", "e", "l",
                             "o", "p", "+", "4">>
               /\ (old = <<"2", ".", "0", ".", "0", "+", "9">> /\ argvMode = Undefined
                      /\ isIncrBuild)
                  => new = <<"2", ".", "0", ".", "0", "+", "1", "0">>
               /\ (old = <<"1", ".", "2", ".", "5">> /\ argvMode = Master
                      /\ ~isIncrBuild)
                  => new = <<"1", ".", "2", ".", "5">>
      ]_vars

\* a bump in mode "develop" has turned 1.2.5+3 into 1.2.5-develop+4 on disk
C1_Witness ==
    /\ "bump version" \in done
    /\ argvMode = Develop
    /\ runs = 1
    /\ manifest.version = <<"1", ".", "2", ".", "5", "-", "d", "e", "v", "e", "l",
                            "o", "p", "+", "4">>

(***************************************************************************)
(* C2: whenever 'bundle the plugin' runs in a build that also names stages *)
(* writing the manifest or the output tree ('bump version', 'copy vanilla  *)
(* files', 'compile and move scripts'), all of those stages have completed *)
(* before the bundle stage reads.                                          *)
(***************************************************************************)
Writers == {"bump version", "copy vanilla files", "compile and move scripts"}

C2_BundleAfterWriters ==
    [][ BundleRuns => \A t \in Writers \cap Range(argvTasks) : t \in done ]_vars

(***************************************************************************)
(* C3 as stated: once 'bump version' has finished both of its writes, the  *)
(* version in package.json equals the version in plugin.info.              *)
(***************************************************************************)
C3_VersionsEqual ==
    ("bump version" \in done /\ PackageJsonDone /\ manifest # Truncated)
        => packageJson = manifest.version

(***************************************************************************)
(* C3 amended: once 'bump version' has finished both of its writes, the    *)
(* version in plugin.info is the version in package.json followed by the   *)
(* build suffix ("+" and the build counter) when autoIncrement is true,    *)
(* and equal to it when autoIncrement is false.                            *)
(***************************************************************************)
C3_PackageVersionLacksBuild ==
    ("bump version" \in done /\ PackageJsonDone /\ manifest # Truncated)
        => LET m == manifest.version
               n == Len(packageJson)
           IN  IF isIncrBuild
               THEN /\ Len(m) > n + 1
                    /\ SubSeq(m, 1, n) = packageJson
                    /\ m[n + 1] = "+"
                    /\ AllIn(SubSeq(m, n + 2, Len(m)), IdChars)
               ELSE m = packageJson

\* both writes are done and the two files hold different versions
C3_Witness ==
    /\ "bump version" \in done
    /\ PackageJsonDone
    /\ isIncrBuild
    /\ manifest # Truncated
    /\ packageJson # manifest.version
    /\ packageJson = MainText(manifest.version) \o LabelOf(argvMode)

(***************************************************************************)
(* C4: when the build part of the current version is absent or is not a    *)
(* number, 'bump version' with autoIncrement true raises no error and the  *)
(* new version ends in "+1".                                               *)
(***************************************************************************)
C4_NonNumericBuildCountsAsZero ==
    [][ (/\ BumpRuns
         /\ isIncrBuild
         /\ SemVer(pluginInfo.version).valid
         /\ ~NumericBuild(pluginInfo.version))
        => /\ err' # "TypeError: Invalid Version"
           /\ EndsWith(pluginInfo'.version, <<"+", "1">>)
      ]_vars

(***************************************************************************)
(* C5: 'bump version' signals successful completion only after both the    *)
(* write of plugin.info and the write of package.json have finished        *)
(* successfully.                                                           *)
(***************************************************************************)
C5_CompletionAfterBothWrites ==
    "bump version" \in done => (manifest = pluginInfo /\ PackageJsonDone)

(***************************************************************************)
(* C6: a write that fails partway leaves no truncated file: plugin.info    *)
(* always holds a complete manifest and no artifact in bundle is partial.  *)
(***************************************************************************)
C6_NoPartialFile ==
    /\ manifest # Truncated
    /\ \A f \in bundle.files : f.content # Truncated

(***************************************************************************)
(* C7: if the title of plugin.info differs from the configured             *)
(* "$:/plugins/<author>/<pluginName>", the process aborts at startup: no   *)
(* task is registered, started or completed, nothing is in flight, and no  *)
(* file on disk changes until the process has ended.                       *)
(***************************************************************************)
C7_MismatchAbortsBeforeAnyStage ==
    [][ /\ (pc = "idle" /\ pc' # "idle" /\ manifest # Truncated
               /\ manifest.title # "$:/plugins/danielo515/pouchdb")
           => (/\ pc' = "aborted"
               /\ registered' = {}
               /\ started' = {}
               /\ pending' = {}
               /\ UNCHANGED disk)
        /\ pc = "aborted"
           => (/\ pc' = "idle"
               /\ registered' = {}
               /\ started' = {}
               /\ done' = {}
               /\ pending' = {}
               /\ UNCHANGED disk)
      ]_vars

\* a process has aborted on the sanity check
C7_Witness ==
    /\ pc = "aborted"
    /\ err = "Gulp settings do not match the plugin.info"
    /\ manifest.title = OtherTitle
    /\ registered = {}

(***************************************************************************)
(* C8: when 'perform cleanup' is named in a build, no other stage writes   *)
(* to an output path (dist, bundle, docs, maps) before the cleanup has     *)
(* completed.                                                              *)
(***************************************************************************)
C8_CleanupBeforeWrites ==
    [][ (/\ "perform cleanup" \in Range(argvTasks)
         /\ outputs' # outputs
         /\ (Op("del") \in pending <=> Op("del") \in pending'))
        => "perform cleanup" \in done
      ]_vars

(***************************************************************************)
(* C9: every 'bump version' run with autoIncrement true, on a persisted    *)
(* version whose build counter b is numeric or absent, keeps MAJOR, MINOR  *)
(* and PATCH, persists build counter b+1 and exactly the label of this     *)
(* run's mode (write failures of the file system aside).                   *)
(***************************************************************************)
C9_EachRunAddsOne ==
    [][ (/\ BumpRuns
         /\ isIncrBuild
         /\ manifest # Truncated
         /\ (HasBuild(manifest.version) => NumericBuild(manifest.version))
         /\ err' \notin {"Error: write plugin.info"})
        => /\ manifest' # Truncated
           /\ MainText(manifest'.version) = MainText(manifest.version)
           /\ NumericBuild(manifest'.version)
           /\ BuildCounter(manifest'.version) = BuildCounter(manifest.version) + 1
           /\ LabelText(manifest'.version) = LabelOf(argvMode)
      ]_vars

(***************************************************************************)
(* C10: the version persisted in plugin.info is always a valid semantic    *)
(* version, one the next 'bump version' can parse.                         *)
(***************************************************************************)
C10_PersistedVersionParses ==
    manifest # Truncated => SemVer(manifest.version).valid

====
